---- MODULE Spec2Model ----
(***************************************************************************)
(* Linkary backend: the link controller (createLink, updateLink,           *)
(* deleteLink, getLink, getLinks, getGraphData), the Link schema and the   *)
(* metadata extractor (extractMetadata). Linkary frontend: the paste       *)
(* handler and the token handling of the axios interceptors.               *)
(*                                                                         *)
(* Strings are sequences of one-character strings, so that startsWith,     *)
(* trim, template concatenation and URL parsing are computed as the code   *)
(* computes them.                                                          *)
(***************************************************************************)
EXTENDS Integers, Sequences, FiniteSets, TLC

\* ------------------------------------------------------------------ values

\* JavaScript undefined and null: one-element sequences whose element is not
\* a character, so that they differ from every string.
Undefined == <<"<undefined>">>
Null == <<"<null>">>

IsString(v) == v # Undefined /\ v # Null

\* JavaScript truthiness of a string-or-undefined-or-null value (the operand
\* of ||, && and if).
Truthy(v) == IsString(v) /\ v # <<>>

\* a || b
Or(a, b) == IF Truthy(a) THEN a ELSE b

SetMin(S) == CHOOSE x \in S : \A y \in S : x <= y
SetMax(S) == CHOOSE x \in S : \A y \in S : x >= y

\* String.prototype.startsWith
StartsWith(s, p) == Len(s) >= Len(p) /\ SubSeq(s, 1, Len(p)) = p

\* String.prototype.trim (the only white space of the alphabet is " ")
Trim(s) ==
  LET keep == {i \in 1..Len(s) : s[i] # " "}
  IN  IF keep = {} THEN <<>> ELSE SubSeq(s, SetMin(keep), SetMax(keep))

\* ------------------------------------------------------------------ new URL

Letters == {"a", "b", "c", "d", "e", "f", "g", "h", "i", "j", "k", "l", "m",
            "n", "o", "p", "q", "r", "s", "t", "u", "v", "w", "x", "y", "z"}
Digits == {"0", "1", "2", "3", "4", "5", "6", "7", "8", "9"}
SchemeChars == Letters \cup Digits \cup {"+", "-", "."}

HTTP == <<"h", "t", "t", "p">>
HTTPS == <<"h", "t", "t", "p", "s">>
FTP == <<"f", "t", "p">>

\* The special schemes of the URL standard that the model's inputs use.
SpecialSchemes == {HTTP, HTTPS, FTP}

\* The default port of a special scheme, which the URL parser drops.
DefaultPort(scheme) ==
  IF scheme = HTTP THEN <<"8", "0">>
  ELSE IF scheme = HTTPS THEN <<"4", "4", "3">>
  ELSE IF scheme = FTP THEN <<"2", "1">>
  ELSE Undefined

\* The characters of s from index i on.
From(s, i) == SubSeq(s, i, Len(s))

\* s without its leading "/" characters.
SkipSlashes(s) ==
  LET other == {i \in 1..Len(s) : s[i] # "/"}
  IN  IF other = {} THEN <<>> ELSE From(s, SetMin(other))

\* The authority of s: the characters before the first "/", "?" or "#".
Authority(s) ==
  LET ends == {i \in 1..Len(s) : s[i] \in {"/", "?", "#"}}
  IN  IF ends = {} THEN s ELSE SubSeq(s, 1, SetMin(ends) - 1)

\* hostname and port of an authority "hostname[:port]".
SplitPort(auth) ==
  LET colons == {i \in 1..Len(auth) : auth[i] = ":"}
  IN  IF colons = {}
      THEN [hostname |-> auth, port |-> <<>>, ok |-> TRUE]
      ELSE LET c == SetMax(colons)
               p == From(auth, c + 1)
           IN  [hostname |-> SubSeq(auth, 1, c - 1), port |-> p,
                ok |-> \A i \in 1..Len(p) : p[i] \in Digits]

\* new URL(s) without a base: [ok |-> FALSE] when the constructor throws
\* TypeError, else the protocol, host and hostname properties.
ParseURL(s) ==
  LET colons == {i \in 1..Len(s) : s[i] = ":"}
      c == SetMin(colons)
      scheme == SubSeq(s, 1, c - 1)
      rest == From(s, c + 1)
      special == scheme \in SpecialSchemes
      auth == IF special THEN Authority(SkipSlashes(rest))
              ELSE IF StartsWith(rest, <<"/", "/">>) THEN Authority(From(rest, 3))
              ELSE <<>>
      hp == SplitPort(auth)
      port == IF hp.port = DefaultPort(scheme) THEN <<>> ELSE hp.port
  IN  IF \/ ~IsString(s)
         \/ colons = {}
      THEN [ok |-> FALSE]
      ELSE IF \/ scheme = <<>>
              \/ scheme[1] \notin Letters
              \/ \E i \in 1..Len(scheme) : scheme[i] \notin SchemeChars
              \/ ~hp.ok
              \/ special /\ hp.hostname = <<>>
              \/ \E i \in 1..Len(hp.hostname) : hp.hostname[i] = " "
      THEN [ok |-> FALSE]
      ELSE [ok |-> TRUE,
            protocol |-> scheme \o <<":">>,
            hostname |-> hp.hostname,
            host |-> IF port = <<>> THEN hp.hostname
                     ELSE hp.hostname \o <<":">> \o port]

\* `${urlObj.protocol}//${urlObj.host}`
Origin(u) == u.protocol \o <<"/", "/">> \o u.host

\* ------------------------------------------------------------------ extractMetadata

\* What the selectors of the try block read from a fetched page: the content
\* or href attribute (Undefined when no element matches) and the text of
\* <title> ("" when there is none).
PageFields == {"ogTitle", "twitterTitle", "title",
               "ogDescription", "twitterDescription", "description",
               "ogImage", "twitterImage", "icon", "shortcutIcon"}

NoPage == [f \in PageFields |-> Undefined]

\* The outcome of axios.get: a 2xx response whose body cheerio loads ("ok"),
\* or a rejection (no connection, the 10 s timeout, a non-2xx status) or a
\* body cheerio.load throws on ("parse").
FailureKinds == {"network", "timeout", "status", "parse"}
Failure(kind) == [kind |-> kind, page |-> NoPage]
Fetched(page) == [kind |-> "ok", page |-> page]

Thrown == [threw |-> TRUE,
           value |-> [title |-> <<>>, description |-> <<>>, image |-> <<>>, favicon |-> <<>>]]
Return(v) == [threw |-> FALSE, value |-> v]

\* `${urlObj.protocol}//${urlObj.host}${ref.startsWith('/') ? '' : '/'}${ref}`
ToAbsolute(ref, u) ==
  Origin(u) \o (IF StartsWith(ref, <<"/">>) THEN <<>> ELSE <<"/">>) \o ref

\* The test guarding the conversion: ref && !ref.startsWith('http')
NeedsConversion(ref) == Truthy(ref) /\ ~StartsWith(ref, HTTP)

\* TryBlock whose favicon chain falls back to the image before the default.
TryBlock_FaviconFromImage(url, page) ==
  LET title == Or(Or(Or(page.ogTitle, page.twitterTitle), page.title), <<>>)
      description == Or(Or(Or(page.ogDescription, page.twitterDescription),
                           page.description), <<>>)
      image == Or(Or(page.ogImage, page.twitterImage), <<>>)
      favicon == Or(Or(Or(page.icon, page.shortcutIcon), image), <<>>)
      u == ParseURL(url)
      needsUrl == NeedsConversion(image) \/ NeedsConversion(favicon) \/ ~Truthy(favicon)
  IN  IF needsUrl /\ ~u.ok
      THEN Thrown
      ELSE Return([title |-> Trim(title),
                   description |-> Trim(description),
                   image |-> IF NeedsConversion(image) THEN ToAbsolute(image, u)
                             ELSE image,
                   favicon |-> IF NeedsConversion(favicon) THEN ToAbsolute(favicon, u)
                               ELSE IF ~Truthy(favicon)
                                    THEN Origin(u) \o <<"/", "f", "a", "v", "i", "c", "o", "n", ".", "i", "c", "o">>
                                    ELSE favicon])

\* The try block after a successful fetch; Thrown when new URL(url) throws.
TryBlock(url, page) ==
  LET title == Or(Or(Or(page.ogTitle, page.twitterTitle), page.title), <<>>)
      description == Or(Or(Or(page.ogDescription, page.twitterDescription),
                           page.description), <<>>)
      image == Or(Or(page.ogImage, page.twitterImage), <<>>)
      favicon == Or(Or(page.icon, page.shortcutIcon), <<>>)
      u == ParseURL(url)
      needsUrl == NeedsConversion(image) \/ NeedsConversion(favicon) \/ ~Truthy(favicon)
  IN  IF needsUrl /\ ~u.ok
      THEN Thrown
      ELSE Return([title |-> Trim(title),
                   description |-> Trim(description),
                   image |-> IF NeedsConversion(image) THEN ToAbsolute(image, u)
                             ELSE image,
                   favicon |-> IF NeedsConversion(favicon) THEN ToAbsolute(favicon, u)
                               ELSE IF ~Truthy(favicon)
                                    THEN Origin(u) \o <<"/", "f", "a", "v", "i", "c", "o", "n", ".", "i", "c", "o">>
                                    ELSE favicon])

\* CatchBlock with the host (port included) as the title.
CatchBlock_HostAsTitle(url) ==
  LET u == ParseURL(url)
  IN  IF u.ok
      THEN Return([title |-> u.host,
                   description |-> <<>>,
                   image |-> <<>>,
                   favicon |-> Origin(u) \o <<"/", "f", "a", "v", "i", "c", "o", "n", ".", "i", "c", "o">>])
      ELSE Return([title |-> url, description |-> <<>>, image |-> <<>>, favicon |-> <<>>])

\* CatchBlock without its inner try: new URL(url) throws out of the function.
CatchBlock_Rethrow(url) ==
  LET u == ParseURL(url)
  IN  IF u.ok
      THEN Return([title |-> u.hostname,
                   description |-> <<>>,
                   image |-> <<>>,
                   favicon |-> Origin(u) \o <<"/", "f", "a", "v", "i", "c", "o", "n", ".", "i", "c", "o">>])
      ELSE Thrown

\* The catch block: the degraded metadata, from the parsed URL or, when
\* new URL(url) throws too, from the raw input.
CatchBlock(url) ==
  LET u == ParseURL(url)
  IN  IF u.ok
      THEN Return([title |-> u.hostname,
                   description |-> <<>>,
                   image |-> <<>>,
                   favicon |-> Origin(u) \o <<"/", "f", "a", "v", "i", "c", "o", "n", ".", "i", "c", "o">>])
      ELSE Return([title |-> url, description |-> <<>>, image |-> <<>>, favicon |-> <<>>])

\* extractMetadata without a catch: a failed fetch throws to the caller.
extractMetadata_NoCatch(url, outcome) ==
  IF outcome.kind = "ok" THEN TryBlock(url, outcome.page) ELSE Thrown

extractMetadata(url, outcome) ==
  IF outcome.kind = "ok" /\ ~TryBlock(url, outcome.page).threw
  THEN TryBlock(url, outcome.page)
  ELSE CatchBlock(url)

\* Retries that calls axios.get once more when the first call fails.
Retries_OnFailure(outcome) == IF outcome.kind = "ok" THEN 0 ELSE 1

\* The calls of axios.get that extractMetadata makes after its first call
\* has settled with the given outcome: the catch block makes none.
Retries(outcome) == 0

\* ------------------------------------------------------------------ inputs

\* "https://a.io/b/p": a page below the root of its site.
UrlPage == HTTPS \o <<":", "/", "/", "a", ".", "i", "o", "/", "b", "/", "p">>
\* "http://c.io:8/": an explicit, non-default port.
UrlPort == HTTP \o <<":", "/", "/", "c", ".", "i", "o", ":", "8", "/">>
\* "https://a.io:443": the default port, no path.
UrlDefaultPort == HTTPS \o <<":", "/", "/", "a", ".", "i", "o", ":", "4", "4", "3">>
\* "http://c.io": no path.
UrlShort == HTTP \o <<":", "/", "/", "c", ".", "i", "o">>
\* "a.io": no scheme, new URL throws.
UrlBare == <<"a", ".", "i", "o">>
\* "ftp://a.io/f": parses, but is not http(s).
UrlFtp == <<"f", "t", "p", ":", "/", "/", "a", ".", "i", "o", "/", "f">>

\* "https://c.io/i"
RefAbsolute == HTTPS \o <<":", "/", "/", "c", ".", "i", "o", "/", "i">>
\* "/i/c"
RefRooted == <<"/", "i", "/", "c">>
\* "i"
RefRelative == <<"i">>
\* "http-i": a relative path whose first characters are "http"
RefHttpName == HTTP \o <<"-", "i">>
\* "//c.io/i": scheme-relative
RefSchemeRelative == <<"/", "/", "c", ".", "i", "o", "/", "i">>
\* "data:i": absolute, of another scheme
RefData == <<"d", "a", "t", "a", ":", "i">>

\* The outcomes axios.get(url) can have: a response only from an http(s)
\* URL; every other input is rejected before a request is sent.
FetchOutcomes(url, pages) ==
  {Failure(k) : k \in FailureKinds}
    \cup (IF ParseURL(url).ok /\ ParseURL(url).protocol \in {HTTP \o <<":">>, HTTPS \o <<":">>}
          THEN {Fetched(p) : p \in pages}
          ELSE {})

\* The pages of the extractor's specification.
ExtractPages ==
  [ogTitle : {Undefined, <<" ">>, <<" ", "t", " ">>},
   twitterTitle : {Undefined, <<"w">>},
   title : {<<>>, <<"h">>},
   ogDescription : {Undefined, <<"d">>},
   twitterDescription : {Undefined, <<"e">>},
   description : {Undefined, <<"f", " ">>},
   ogImage : {Undefined, <<>>, RefAbsolute, RefRooted, RefRelative, RefHttpName,
              RefSchemeRelative, RefData},
   twitterImage : {Undefined, <<"j">>},
   icon : {Undefined, RefAbsolute, RefRooted, RefRelative, RefData},
   shortcutIcon : {Undefined, <<"/", "s">>}]

ExtractUrls == {UrlPage, UrlPort, UrlDefaultPort, UrlBare, UrlFtp, <<>>}

\* ------------------------------------------------------------------ state

\* The clients of the API: each sends requests of its own; the controller
\* never reads who sent a request.
Clients == {"u1", "u2"}

\* Bounds of the model.
MaxCreated == 2
MaxRelated == 1
MaxClock == 3
MaxTokens == 2
MaxInFlight == 2
MaxFetches == 3
MaxTimers == 3

\* The timeout of axios.get (10000 ms), in ticks of the clock.
Timeout == 2

\* An ObjectId no document ever has.
GhostId == 0

\* An array-valued field of a request body: None when the body has no such
\* field (undefined), Some(a) when it has.
None == <<>>
Some(a) == <<a>>

Uncategorized == <<"U", "n", "c", "a", "t", "e", "g", "o", "r", "i", "z", "e", "d">>
\* Category.OTHER of the frontend
Other == <<"O", "t", "h", "e", "r">>
Article == <<"A", "r", "t", "i", "c", "l", "e">>

VARIABLES
  links,      \* the links collection, in insertion order
  nextId,     \* the next ObjectId the driver generates
  createdBy,  \* history: the client whose POST created each _id
  pending,    \* per client, its createLink request in flight
  res,        \* what the last step produced: the HTTP response sent, or what
              \* extractMetadata returned to createLink (NoResponse: nothing)
  now,        \* Date.now()
  ex,         \* one call of extractMetadata: input, outcome, result
  outbound,   \* history: the number of calls of axios.get the server has made
  browser     \* the frontend in one browser: localStorage, location, requests

vars == <<links, nextId, createdBy, pending, res, now, ex, outbound, browser>>
store == <<links, nextId, createdBy, pending, res, now, browser>>
server == <<links, nextId, createdBy, pending, res, now, ex, outbound>>

Idle == [stage |-> "idle"]
NoResponse == [op |-> "none"]

\* ObjectId.prototype.toString
IdString(id) == <<"oid", id>>

\* The positions of the documents matching { url } / { _id: id }.
FindByUrl(url) == {i \in 1..Len(links) : links[i].url = url}
FindById(id) == {i \in 1..Len(links) : links[i]._id = id}

\* The ObjectIds a client can know: those of created documents, and one
\* that names nothing.
KnownIds == (1..(nextId - 1)) \cup {GhostId}

RECURSIVE SeqsUpTo(_, _)
\* The sequences over S of length at most n.
SeqsUpTo(S, n) ==
  IF n = 0 THEN {<<>>}
  ELSE LET shorter == SeqsUpTo(S, n - 1)
       IN  shorter \cup {Append(q, x) : q \in shorter, x \in S}

\* ------------------------------------------------------------------ Link model

\* Link.create: the schema's document for the given fields (the handler
\* gives every field but the timestamps, which default to Date.now; the
\* pre('save') hook then sets updatedAt).
NewLink(id, body, metadata, t) ==
  [_id |-> id,
   url |-> body.url,
   title |-> metadata.title,
   description |-> metadata.description,
   favicon |-> metadata.favicon,
   image |-> metadata.image,
   tags |-> IF body.tags = None THEN <<>> ELSE body.tags[1],
   category |-> Or(body.category, Uncategorized),
   notes |-> Or(body.notes, <<>>),
   relatedLinks |-> IF body.relatedLinks = None THEN <<>> ELSE body.relatedLinks[1],
   createdAt |-> t,
   updatedAt |-> t]

\* Populate that keeps the entries that name no document.
Populate_KeepMissing(link, fields) ==
  LET doc(r) == links[CHOOSE i \in FindById(r) : TRUE]
  IN  [link EXCEPT !.relatedLinks =
         [k \in 1..Len(@) |->
            IF FindById(@[k]) # {}
            THEN [f \in fields |-> doc(@[k])[f]]
            ELSE [f \in fields |-> IF f = "_id" THEN @[k] ELSE Null]]]

\* populate('relatedLinks', fields): each ObjectId of the array becomes the
\* selected fields of the document it names; an ObjectId that names no
\* document is removed from the array.
Populate(link, fields) ==
  LET found == SelectSeq(link.relatedLinks, LAMBDA r : FindById(r) # {})
      doc(r) == links[CHOOSE i \in FindById(r) : TRUE]
  IN  [link EXCEPT !.relatedLinks =
         [k \in 1..Len(found) |-> [f \in fields |-> doc(found[k])[f]]]]

\* Link.find().populate('relatedLinks', fields)
FindPopulated(fields) == [i \in 1..Len(links) |-> Populate(links[i], fields)]

\* ------------------------------------------------------------------ getGraphData

\* GraphNode with the title alone as the label.
GraphNode_TitleLabel(link) ==
  [id |-> IdString(link._id),
   label |-> link.title,
   url |-> link.url,
   category |-> link.category,
   tags |-> link.tags]

GraphNode(link) ==
  [id |-> IdString(link._id),
   label |-> Or(link.title, link.url),
   url |-> link.url,
   category |-> link.category,
   tags |-> link.tags]

\* EdgesOf that pushes the reverse of every edge too.
EdgesOf_Reciprocal(link) ==
  [k \in 1..(2 * Len(link.relatedLinks)) |->
     IF k <= Len(link.relatedLinks)
     THEN [source |-> IdString(link._id), target |-> IdString(link.relatedLinks[k]._id)]
     ELSE [source |-> IdString(link.relatedLinks[k - Len(link.relatedLinks)]._id),
           target |-> IdString(link._id)]]

\* The edges one populated link pushes.
EdgesOf(link) ==
  [k \in 1..Len(link.relatedLinks) |->
     [source |-> IdString(link._id), target |-> IdString(link.relatedLinks[k]._id)]]

RECURSIVE GraphEdges(_)
GraphEdges(docs) ==
  IF docs = <<>> THEN <<>> ELSE EdgesOf(Head(docs)) \o GraphEdges(Tail(docs))

\* GraphData that gives a node only to the links that list something.
GraphData_SkipIsolated(docs) ==
  LET listed == SelectSeq(docs, LAMBDA d : d.relatedLinks # <<>>)
  IN  [nodes |-> [i \in 1..Len(listed) |-> GraphNode(listed[i])],
       edges |-> GraphEdges(docs)]

GraphData(docs) ==
  [nodes |-> [i \in 1..Len(docs) |-> GraphNode(docs[i])],
   edges |-> GraphEdges(docs)]

\* The pages a created link's site answers with.
PageTagged ==
  [NoPage EXCEPT !.ogTitle = <<"t">>, !.title = <<"h">>, !.ogImage = RefRooted]
PageUntitled == [NoPage EXCEPT !.title = <<>>]
CreatePages == {PageTagged}
GraphPages == {PageUntitled}

\* ------------------------------------------------------------------ responses

\* The sender of a request addressed to one document by its id, which the
\* model does not tell apart.
Anyone == "anyone"

Respond(op, c, status, error, req, data) ==
  [op |-> op, client |-> c, status |-> status, error |-> error, req |-> req, data |-> data]

\* ------------------------------------------------------------------ createLink

\* CreateCheck that fetches the page before the findOne({ url }) test.
CreateCheck_FetchFirst(c, body) ==
  /\ pending[c] = Idle
  /\ (Truthy(body.url) /\ FindByUrl(body.url) = {}) =>
       nextId + Cardinality({d \in Clients : pending[d] # Idle}) <= MaxCreated
  /\ IF ~Truthy(body.url)
     THEN /\ res' = Respond("createLink", c, 400, "Please provide a URL", body.url, <<>>)
          /\ UNCHANGED <<pending, outbound>>
     ELSE IF FindByUrl(body.url) # {}
     THEN /\ res' = Respond("createLink", c, 400, "Link already exists", body.url, <<>>)
          /\ outbound' = outbound + 1
          /\ UNCHANGED pending
     ELSE /\ res' = NoResponse
          /\ pending' = [pending EXCEPT ![c] = [stage |-> "fetch", body |-> body]]
          /\ outbound' = outbound + 1
  /\ UNCHANGED <<links, nextId, createdBy, now, ex, browser>>

\* POST /api/links up to the await of extractMetadata: the url test, the
\* findOne({ url }) test and the call of axios.get that extractMetadata
\* starts with.
CreateCheck(c, body) ==
  /\ pending[c] = Idle
  /\ (Truthy(body.url) /\ FindByUrl(body.url) = {}) =>
       nextId + Cardinality({d \in Clients : pending[d] # Idle}) <= MaxCreated
  /\ IF ~Truthy(body.url)
     THEN /\ res' = Respond("createLink", c, 400, "Please provide a URL", body.url, <<>>)
          /\ UNCHANGED <<pending, outbound>>
     ELSE IF FindByUrl(body.url) # {}
     THEN /\ res' = Respond("createLink", c, 400, "Link already exists", body.url, <<>>)
          /\ UNCHANGED <<pending, outbound>>
     ELSE /\ res' = NoResponse
          /\ pending' = [pending EXCEPT ![c] = [stage |-> "fetch", body |-> body]]
          /\ outbound' = outbound + 1
  /\ UNCHANGED <<links, nextId, createdBy, now, ex, browser>>

\* await extractMetadata(url) settles; a throw lands in the handler's catch.
\* res records the outcome of the fetch and the metadata returned.
CreateFetch(c, pages) ==
  /\ pending[c].stage = "fetch"
  /\ \E outcome \in FetchOutcomes(pending[c].body.url, pages) :
       LET m == extractMetadata(pending[c].body.url, outcome)
       IN  /\ outbound' = outbound + Retries(outcome)
           /\ IF m.threw
              THEN /\ res' = Respond("createLink", c, 500, "extractMetadata", pending[c].body.url, <<>>)
                   /\ pending' = [pending EXCEPT ![c] = Idle]
              ELSE /\ res' = Respond("extractMetadata", c, 0, outcome.kind, pending[c].body.url, m.value)
                   /\ pending' = [pending EXCEPT ![c] =
                        [stage |-> "insert", body |-> pending[c].body, metadata |-> m.value]]
  /\ UNCHANGED <<links, nextId, createdBy, now, ex, browser>>

\* await Link.create(...) settles: the unique index on url rejects a second
\* document with the same url (E11000), which lands in the handler's catch.
CreateInsert(c) ==
  /\ pending[c].stage = "insert"
  /\ LET p == pending[c]
         doc == NewLink(nextId, p.body, p.metadata, now)
     IN  IF FindByUrl(p.body.url) # {}
         THEN /\ res' = Respond("createLink", c, 500, "E11000 duplicate key", p.body.url, <<>>)
              /\ UNCHANGED <<links, nextId, createdBy>>
         ELSE /\ links' = Append(links, doc)
              /\ nextId' = nextId + 1
              /\ createdBy' = Append(createdBy, c)
              /\ res' = Respond("createLink", c, 201, "", p.body.url, doc)
  /\ pending' = [pending EXCEPT ![c] = Idle]
  /\ UNCHANGED <<now, ex, outbound, browser>>

\* The frontend's test of a pasted or typed text before it posts it.
isValidURL(string) ==
  LET url == ParseURL(string)
  IN  url.ok /\ url.protocol \in {HTTP \o <<":">>, HTTPS \o <<":">>}

\* The frontend's paste handler: a text that passes isValidURL is posted with
\* no tags, the category Other and no notes; any other text is ignored.
AddLinkFromClipboard(c, text) ==
  /\ isValidURL(text)
  /\ CreateCheck(c, [url |-> text, tags |-> Some(<<>>), category |-> Other,
                     notes |-> <<>>, relatedLinks |-> None])

\* ------------------------------------------------------------------ updateLink, deleteLink

\* Updated by a write that does not run the pre('save') hook.
Updated_NoHook(link, body, t) ==
  [link EXCEPT
     !.title = IF body.title # Undefined THEN body.title ELSE @,
     !.description = IF body.description # Undefined THEN body.description ELSE @,
     !.tags = IF body.tags # None THEN body.tags[1] ELSE @,
     !.category = IF body.category # Undefined THEN body.category ELSE @,
     !.notes = IF body.notes # Undefined THEN body.notes ELSE @,
     !.relatedLinks = IF body.relatedLinks # None THEN body.relatedLinks[1] ELSE @]

\* The assignments of updateLink and link.save() with its pre('save') hook.
Updated(link, body, t) ==
  [link EXCEPT
     !.title = IF body.title # Undefined THEN body.title ELSE @,
     !.description = IF body.description # Undefined THEN body.description ELSE @,
     !.tags = IF body.tags # None THEN body.tags[1] ELSE @,
     !.category = IF body.category # Undefined THEN body.category ELSE @,
     !.notes = IF body.notes # Undefined THEN body.notes ELSE @,
     !.relatedLinks = IF body.relatedLinks # None THEN body.relatedLinks[1] ELSE @,
     !.updatedAt = t]

\* UpdateLink that replaces the document: a path the body omits falls back to
\* the default createLink gives it.
UpdateLink_Replace(id, body) ==
  /\ IF FindById(id) = {}
     THEN /\ res' = Respond("updateLink", Anyone, 404, "Link not found", id, <<>>)
          /\ links' = links
     ELSE LET i == CHOOSE j \in FindById(id) : TRUE
              doc == [Updated(links[i], body, now) EXCEPT
                        !.category = Or(body.category, Uncategorized),
                        !.notes = Or(body.notes, <<>>)]
          IN  /\ links' = [links EXCEPT ![i] = doc]
              /\ res' = Respond("updateLink", Anyone, 200, "", id, doc)
  /\ UNCHANGED <<nextId, createdBy, pending, now, ex, outbound, browser>>

\* PUT /api/links/:id. findById and save are taken as one step: save writes
\* only the paths assigned here.
UpdateLink(id, body) ==
  /\ IF FindById(id) = {}
     THEN /\ res' = Respond("updateLink", Anyone, 404, "Link not found", id, <<>>)
          /\ links' = links
     ELSE LET i == CHOOSE j \in FindById(id) : TRUE
              doc == Updated(links[i], body, now)
          IN  /\ links' = [links EXCEPT ![i] = doc]
              /\ res' = Respond("updateLink", Anyone, 200, "", id, doc)
  /\ UNCHANGED <<nextId, createdBy, pending, now, ex, outbound, browser>>

\* DeleteLink that also pulls the deleted id out of every relatedLinks array.
DeleteLink_Cascade(id) ==
  /\ IF FindById(id) = {}
     THEN /\ res' = Respond("deleteLink", Anyone, 404, "Link not found", id, <<>>)
          /\ links' = links
     ELSE LET kept == SelectSeq(links, LAMBDA l : l._id # id)
          IN  /\ links' = [i \in 1..Len(kept) |->
                             [kept[i] EXCEPT !.relatedLinks = SelectSeq(@, LAMBDA r : r # id)]]
              /\ res' = Respond("deleteLink", Anyone, 200, "", id, <<>>)
  /\ UNCHANGED <<nextId, createdBy, pending, now, ex, outbound, browser>>

\* DELETE /api/links/:id. findById and deleteOne are taken as one step.
DeleteLink(id) ==
  /\ IF FindById(id) = {}
     THEN /\ res' = Respond("deleteLink", Anyone, 404, "Link not found", id, <<>>)
          /\ links' = links
     ELSE /\ links' = SelectSeq(links, LAMBDA l : l._id # id)
          /\ res' = Respond("deleteLink", Anyone, 200, "", id, <<>>)
  /\ UNCHANGED <<nextId, createdBy, pending, now, ex, outbound, browser>>

\* ------------------------------------------------------------------ reads

\* GET /api/links
GetLinks(c) ==
  /\ res' = Respond("getLinks", c, 200, "", Len(links), FindPopulated({"_id", "title", "url"}))
  /\ UNCHANGED <<links, nextId, createdBy, pending, now, ex, outbound, browser>>

\* GET /api/links/:id
GetLink(id) ==
  /\ IF FindById(id) = {}
     THEN res' = Respond("getLink", Anyone, 404, "Link not found", id, <<>>)
     ELSE res' = Respond("getLink", Anyone, 200, "", id,
                         Populate(links[CHOOSE j \in FindById(id) : TRUE], {"_id", "title", "url"}))
  /\ UNCHANGED <<links, nextId, createdBy, pending, now, ex, outbound, browser>>

\* GET /api/links/graph
GetGraphData(c) ==
  /\ res' = Respond("getGraphData", c, 200, "", <<>>,
                    GraphData(FindPopulated({"_id", "title", "url"})))
  /\ UNCHANGED <<links, nextId, createdBy, pending, now, ex, outbound, browser>>

\* ------------------------------------------------------------------ router

\* One segment of a request path below /api/links: a text, or the 24 hex
\* digits of an ObjectId.
TextSegment(text) == [text |-> text, oid |-> -1]
OidSegment(id) == [text |-> "", oid |-> id]
IsObjectId(segment) == segment.oid >= 0

\* The paths "/", "/graph" and "/<id>".
RootPath == <<>>
GraphPath == <<TextSegment("graph")>>
IdPath(id) == <<OidSegment(id)>>

\* The router with the /:id routes registered before the /graph route.
Routes_ParamFirst ==
  <<[method |-> "GET", pattern |-> "/:id", handler |-> "getLink"],
    [method |-> "PUT", pattern |-> "/:id", handler |-> "updateLink"],
    [method |-> "DELETE", pattern |-> "/:id", handler |-> "deleteLink"],
    [method |-> "GET", pattern |-> "/graph", handler |-> "getGraphData"],
    [method |-> "GET", pattern |-> "/", handler |-> "getLinks"],
    [method |-> "POST", pattern |-> "/", handler |-> "createLink"]>>

\* The routes of the router, in the order they are registered.
Routes ==
  <<[method |-> "GET", pattern |-> "/graph", handler |-> "getGraphData"],
    [method |-> "GET", pattern |-> "/", handler |-> "getLinks"],
    [method |-> "POST", pattern |-> "/", handler |-> "createLink"],
    [method |-> "GET", pattern |-> "/:id", handler |-> "getLink"],
    [method |-> "PUT", pattern |-> "/:id", handler |-> "updateLink"],
    [method |-> "DELETE", pattern |-> "/:id", handler |-> "deleteLink"]>>

\* Whether a route's pattern matches a path.
Matches(pattern, path) ==
  CASE pattern = "/" -> path = RootPath
    [] pattern = "/graph" -> path = GraphPath
    [] pattern = "/:id" -> Len(path) = 1

\* The handler a request is given to: that of the first route, in the order
\* of registration, whose pattern matches the path and which has the method;
\* "none" when there is no such route.
Route(method, path) ==
  LET hits == {k \in 1..Len(Routes) :
                 Routes[k].method = method /\ Matches(Routes[k].pattern, path)}
  IN  IF hits = {} THEN "none" ELSE Routes[SetMin(hits)].handler

\* findById with a string that is no ObjectId: the CastError lands in the
\* handler's catch.
CastError(op, segment) ==
  /\ res' = Respond(op, Anyone, 500, "CastError", segment, <<>>)
  /\ UNCHANGED <<links, nextId, createdBy, pending, now, ex, outbound, browser>>

\* A request no route takes.
Unrouted(c, path) ==
  /\ res' = Respond("router", c, 404, "Cannot", path, <<>>)
  /\ UNCHANGED <<links, nextId, createdBy, pending, now, ex, outbound, browser>>

\* A request arrives at the router and is handled.
Request(c, method, path, body) ==
  LET handler == Route(method, path)
  IN  CASE handler = "getGraphData" -> GetGraphData(c)
        [] handler = "getLinks" -> GetLinks(c)
        [] handler = "createLink" -> CreateCheck(c, body)
        [] handler = "getLink" ->
             IF IsObjectId(path[1]) THEN GetLink(path[1].oid) ELSE CastError(handler, path[1])
        [] handler = "updateLink" ->
             IF IsObjectId(path[1]) THEN UpdateLink(path[1].oid, body)
             ELSE CastError(handler, path[1])
        [] handler = "deleteLink" ->
             IF IsObjectId(path[1]) THEN DeleteLink(path[1].oid) ELSE CastError(handler, path[1])
        [] handler = "none" -> Unrouted(c, path)

\* ------------------------------------------------------------------ extractMetadata, called alone

ExtractCall ==
  /\ ex.pc = "call"
  /\ ex' = [ex EXCEPT !.pc = "done", !.result = extractMetadata(ex.url, ex.outcome)]
  /\ outbound' = outbound + 1 + Retries(ex.outcome)
  /\ UNCHANGED store

\* ------------------------------------------------------------------ extractMetadata, step by step

\* The timer of a request sent at sentAt that never fires.
TimedOut_Never(sentAt, t) == FALSE

\* The timer axios arms with { timeout: 10000 } has run out at time t.
TimedOut(sentAt, t) == t - sentAt >= Timeout

\* Time passes (up to MaxClock, and further while a timer is running).
Tick ==
  /\ now < MaxClock \/ (ex.pc = "wait" /\ now - ex.sentAt < Timeout)
  /\ now' = now + 1
  /\ UNCHANGED <<links, nextId, createdBy, pending, res, ex, outbound, browser>>

\* extractMetadata(url) calls axios.get(url, { timeout: 10000, ... }) and
\* awaits it.
ExtractSend ==
  /\ ex.pc = "call"
  /\ ex' = [ex EXCEPT !.pc = "wait", !.sentAt = now]
  /\ outbound' = outbound + 1
  /\ UNCHANGED store

\* The site answers, or the request fails, before the timer fires: the
\* promise of axios.get settles and the rest of extractMetadata runs (the try
\* block after the await, or the catch block).
SiteAnswers(pages) ==
  /\ ex.pc = "wait"
  /\ \E outcome \in FetchOutcomes(ex.url, pages) \ {Failure("timeout")} :
       /\ ex' = [ex EXCEPT !.pc = "done", !.outcome = outcome,
                           !.result = extractMetadata(ex.url, outcome)]
       /\ outbound' = outbound + Retries(outcome)
  /\ UNCHANGED store

\* The timer fires: axios aborts the request and rejects the promise, and
\* the catch block runs.
TimeoutFires ==
  /\ ex.pc = "wait"
  /\ TimedOut(ex.sentAt, now)
  /\ ex' = [ex EXCEPT !.pc = "done", !.outcome = Failure("timeout"),
                      !.result = extractMetadata(ex.url, Failure("timeout"))]
  /\ outbound' = outbound + Retries(Failure("timeout"))
  /\ UNCHANGED store

\* ------------------------------------------------------------------ frontend: tokens

\* localStorage.getItem('access_token') when no token is stored (null);
\* tokens are 1, 2, ...
NoToken == 0

\* window.location.href: the home page, or the page of a link.
Home == "/"
LinkPage == "/links/:id"

\* useState<User | null>(null): no user, and the user the backend knows.
NoUser == 0
TheUser == 1

\* useState<string | null>(null): no error, and getErrorMessage(err).
NoError == ""
LoginFailed == "Login failed"

\* The state of useNotification: the message displayed ('' when none) and
\* the timers armed by setTimeout, each by the time it is due; shownAt and
\* cause (history): when the message was last set by showNotification, and
\* what set it last.
NoMessage == ""
ToastInit == [message |-> NoMessage, timers |-> {}, shownAt |-> 0, cause |-> "init"]

\* The state of Home: searchQuery, currentPage, paginatedData (by the query
\* whose response it is) and loading; fetches: the calls of fetchData that
\* await their response, each with the query it sent; issued: the number of
\* fetches sent; latest (history): the outcome of the fetch sent last.
FirstPage == 1
NoResults == [text |-> "<none>", page |-> 0]
HomeInit ==
  [text |-> "", page |-> FirstPage, shown |-> NoResults, loading |-> TRUE,
   fetches |-> {}, issued |-> 0, latest |-> "none"]

\* browser.token: localStorage's access_token; href: the location; inFlight:
\* the requests sent and not answered, each with the token of its
\* Authorization header (NoToken: no header); minted: the tokens the backend
\* has issued; user, loading, error: the state of AuthProvider; mounted:
\* whether its effect has run; last: the last thing that happened; dead
\* (history): the tokens that were stored, or carried by the request, when a
\* 401 arrived.
BrowserInit ==
  [token |-> NoToken, href |-> Home, inFlight |-> {}, minted |-> 0, dead |-> {},
   user |-> NoUser, loading |-> TRUE, error |-> NoError, mounted |-> FALSE,
   home |-> HomeInit, toast |-> ToastInit,
   last |-> [ev |-> "load", auth |-> NoToken, status |-> 0]]

\* The request interceptor: the token of the Authorization header it sets.
RequestInterceptor(token) == IF token # NoToken THEN token ELSE NoToken

\* The response interceptor without removeToken().
ResponseInterceptor_KeepToken(b, status) ==
  IF status = 401 THEN [b EXCEPT !.href = Home] ELSE b

\* The response interceptor's error handler: on 401, removeToken() and
\* window.location.href = '/'.
ResponseInterceptor(b, status) ==
  IF status = 401 THEN [b EXCEPT !.token = NoToken, !.href = Home] ELSE b

\* The request of the given kind as it leaves the browser.
Outgoing(b, kind) == [kind |-> kind, auth |-> RequestInterceptor(b.token)]

CanSend(b, kind) ==
  /\ Cardinality(b.inFlight) < MaxInFlight
  /\ Outgoing(b, kind) \notin b.inFlight

Sent(b, kind) ==
  [b EXCEPT !.inFlight = @ \cup {Outgoing(b, kind)},
            !.last = [ev |-> "send", auth |-> Outgoing(b, kind).auth, status |-> 0]]

\* axios sends a request of the given kind: the request interceptor runs.
Send(kind) ==
  /\ browser.mounted
  /\ CanSend(browser, kind)
  /\ browser' = Sent(browser, kind)
  /\ UNCHANGED server

\* api.getLinks, api.createLink, ...: a call of the links API.
CallApi == Send("api")

\* login(credential) up to its await: setError(null), setLoading(true), and
\* authApi.googleLogin posts to /auth/google.
Login ==
  LET b == [browser EXCEPT !.error = NoError, !.loading = TRUE]
  IN  /\ browser.mounted
      /\ CanSend(b, "login")
      /\ browser' = Sent(b, "login")
      /\ UNCHANGED server

\* InitAuth whose early return leaves loading as it is.
InitAuth_NoSetLoading(expired) ==
  LET loaded == [browser EXCEPT !.user = NoUser, !.loading = TRUE, !.error = NoError,
                                !.inFlight = {}, !.mounted = TRUE]
  IN  /\ IF loaded.token = NoToken \/ expired
         THEN browser' = [loaded EXCEPT
                            !.token = NoToken,
                            !.last = [ev |-> "mount", auth |-> NoToken, status |-> 0]]
         ELSE browser' = Sent(loaded, "me")
      /\ UNCHANGED server

\* The page loads (the requests of the page before it are abandoned) and
\* AuthProvider mounts with its initial state; initAuth runs up to its
\* await: without a token, or with one that is expired or cannot be decoded,
\* removeToken() and setLoading(false); else authApi.getCurrentUser is called.
InitAuth(expired) ==
  LET loaded == [browser EXCEPT !.user = NoUser, !.loading = TRUE, !.error = NoError,
                                !.inFlight = {}, !.mounted = TRUE]
  IN  /\ IF loaded.token = NoToken \/ expired
         THEN browser' = [loaded EXCEPT
                            !.token = NoToken,
                            !.loading = FALSE,
                            !.last = [ev |-> "mount", auth |-> NoToken, status |-> 0]]
         ELSE browser' = Sent(loaded, "me")
      /\ UNCHANGED server

\* The statuses the backend answers with.
Statuses == {200, 401, 500}

\* A response arrives: the response interceptor runs, then the caller's
\* continuation. login stores the token of a 200 and sets the user, and sets
\* the error otherwise; initAuth sets the user of a 200 and removes the token
\* otherwise; both end with setLoading(false).
Receive(r, status) ==
  LET b1 == ResponseInterceptor(browser, status)
      fresh == browser.minted + 1
      b2 == CASE r.kind = "login" /\ status = 200 ->
                   [b1 EXCEPT !.token = fresh, !.minted = fresh, !.user = TheUser,
                              !.loading = FALSE]
              [] r.kind = "login" /\ status # 200 ->
                   [b1 EXCEPT !.error = LoginFailed, !.loading = FALSE]
              [] r.kind = "me" /\ status = 200 ->
                   [b1 EXCEPT !.user = TheUser, !.loading = FALSE]
              [] r.kind = "me" /\ status # 200 ->
                   [b1 EXCEPT !.token = NoToken, !.loading = FALSE]
              [] OTHER -> b1
  IN  /\ r \in browser.inFlight
      /\ (r.kind = "login" /\ status = 200) => browser.minted < MaxTokens
      /\ browser' = [b2 EXCEPT
                       !.inFlight = @ \ {r},
                       !.dead = IF status = 401
                                THEN @ \cup ({r.auth, browser.token} \ {NoToken})
                                ELSE @,
                       !.last = [ev |-> "recv", auth |-> r.auth, status |-> status]]
      /\ UNCHANGED server

\* Logout that only removes the token.
Logout_TokenOnly ==
  /\ browser.mounted
  /\ browser' = [browser EXCEPT
                   !.token = NoToken,
                   !.last = [ev |-> "logout", auth |-> NoToken, status |-> 0]]
  /\ UNCHANGED server

\* logout(): removeToken(), setUser(null), setError(null).
Logout ==
  /\ browser.mounted
  /\ browser' = [browser EXCEPT
                   !.token = NoToken,
                   !.user = NoUser,
                   !.error = NoError,
                   !.last = [ev |-> "logout", auth |-> NoToken, status |-> 0]]
  /\ UNCHANGED server

\* A click on a node of the graph: window.location.href = `/links/${node.id}`.
OpenLink ==
  /\ browser.mounted
  /\ browser.href = Home
  /\ browser' = [browser EXCEPT
                   !.href = LinkPage,
                   !.last = [ev |-> "open", auth |-> NoToken, status |-> 0]]
  /\ UNCHANGED server

\* ------------------------------------------------------------------ frontend: notifications

\* The duration of useNotification (3000 ms), in ticks of the clock.
Duration == 2

\* showNotification(message) at time t: setNotification(message) and
\* setTimeout(() => setNotification(''), duration).
Notified(b, message, t) ==
  [b EXCEPT !.toast = [message |-> message, timers |-> @.timers \cup {t + Duration},
                       shownAt |-> t, cause |-> "show"]]

ShowNotification(message) ==
  /\ Cardinality(browser.toast.timers) < MaxTimers
  /\ browser' = Notified(browser, message, now)
  /\ UNCHANGED server

\* A timer of showNotification is due and its callback runs:
\* setNotification('').
NotificationTimerFires(due) ==
  /\ due \in browser.toast.timers
  /\ now >= due
  /\ browser' = [browser EXCEPT !.toast.message = NoMessage,
                                !.toast.timers = @ \ {due},
                                !.toast.cause = "timer"]
  /\ UNCHANGED server

\* clearNotification(): setNotification('').
ClearNotification ==
  /\ browser.toast.message # NoMessage
  /\ browser' = [browser EXCEPT !.toast.message = NoMessage, !.toast.cause = "clear"]
  /\ UNCHANGED server

\* ------------------------------------------------------------------ frontend: home page

\* fetchData up to its await: without a user, setLoading(false); else
\* setLoading(true) and api.searchLinks with the query of this render.
Fetching(b) ==
  IF b.user = NoUser
  THEN [b EXCEPT !.home.loading = FALSE]
  ELSE [b EXCEPT !.home.loading = TRUE,
                 !.home.issued = @ + 1,
                 !.home.latest = "sent",
                 !.home.fetches = @ \cup {[n |-> b.home.issued + 1, text |-> b.home.text,
                                           page |-> b.home.page]}]

\* handleSearch: setSearchQuery(text). fetchData is a new function, so the
\* effect calls it; the other effect calls setCurrentPage(1), and when that
\* changes the page fetchData is new again and is called again.
Search(text) ==
  LET b1 == Fetching([browser EXCEPT !.home.text = text])
      b2 == IF browser.home.page = FirstPage THEN b1
            ELSE Fetching([b1 EXCEPT !.home.page = FirstPage])
  IN  /\ text # browser.home.text
      /\ b2.home.issued <= MaxFetches
      /\ browser' = b2
      /\ UNCHANGED server

\* handlePageChange: setCurrentPage(page), and the effect calls fetchData.
PageChange(page) ==
  /\ page # browser.home.page
  /\ browser.home.issued < MaxFetches
  /\ browser' = Fetching([browser EXCEPT !.home.page = page])
  /\ UNCHANGED server

\* onLinkAdded of AddLinkModal: showNotification and fetchData().
LinkAdded ==
  /\ browser.home.issued < MaxFetches
  /\ browser' = Fetching(Notified(browser, "Link added successfully!", now))
  /\ UNCHANGED server

\* The await of a fetchData settles: with the responses, setPaginatedData;
\* with a failure, showNotification; then setLoading(false).
FetchSettles(f, ok) ==
  LET b1 == IF ok THEN [browser EXCEPT !.home.shown = [text |-> f.text, page |-> f.page]]
            ELSE Notified(browser, "Failed to load links", now)
  IN  /\ f \in browser.home.fetches
      /\ browser' = [b1 EXCEPT !.home.loading = FALSE,
                               !.home.fetches = @ \ {f},
                               !.home.latest = IF f.n = browser.home.issued
                                               THEN (IF ok THEN "ok" ELSE "failed")
                                               ELSE @]
      /\ UNCHANGED server

\* ------------------------------------------------------------------ specifications

CreateUrls == {Undefined, <<>>, UrlPage, UrlBare}

RelatedLists == SeqsUpTo(KnownIds, MaxRelated)

NoFields ==
  [tags |-> None, category |-> Undefined, notes |-> Undefined, relatedLinks |-> None]

NoUpdate ==
  [title |-> Undefined, description |-> Undefined, tags |-> None, category |-> Undefined,
   notes |-> Undefined, relatedLinks |-> None]

\* The request bodies of Spec: two clients, a url and a new title, no
\* relations.
CreateBodies == {[url |-> u] @@ NoFields : u \in CreateUrls}

UpdateBodies == {[NoUpdate EXCEPT !.title = t] : t \in {Undefined, Null, <<>>, <<"m">>}}

\* The texts pasted into the frontend.
ClipboardTexts == {UrlPage, UrlPort, UrlBare, UrlFtp}

\* The request bodies of SpecGraph: one client, relatedLinks lists over the
\* ids a client can know, and the title emptied; the sites answer with a page
\* without a title.
GraphClients == {"u1"}

GraphCreateBodies ==
  {[NoFields EXCEPT !.relatedLinks = Some(q)] @@ [url |-> u] :
     u \in {UrlPage, UrlBare}, q \in RelatedLists}

GraphUpdateBodies ==
  {[NoUpdate EXCEPT !.title = <<>>]}
  \cup {[NoUpdate EXCEPT !.relatedLinks = Some(q)] : q \in RelatedLists}

NoCall == [pc |-> "none", url |-> <<>>, outcome |-> Failure("network"), result |-> Thrown]

Init ==
  /\ links = <<>>
  /\ nextId = 1
  /\ createdBy = <<>>
  /\ pending = [c \in Clients |-> Idle]
  /\ res = NoResponse
  /\ now = 0
  /\ ex = NoCall
  /\ outbound = 0
  /\ browser = BrowserInit

Next ==
  \/ \E c \in Clients, body \in CreateBodies : CreateCheck(c, body)
  \/ \E c \in Clients : CreateFetch(c, CreatePages)
  \/ \E c \in Clients : CreateInsert(c)
  \/ \E id \in KnownIds, body \in UpdateBodies : UpdateLink(id, body)
  \/ \E id \in KnownIds : DeleteLink(id)
  \/ \E c \in Clients : GetLinks(c)
  \/ \E id \in KnownIds : GetLink(id)
  \/ \E c \in Clients : GetGraphData(c)

Spec == Init /\ [][Next]_vars

NextGraph ==
  \/ \E c \in GraphClients, body \in GraphCreateBodies : CreateCheck(c, body)
  \/ \E c \in GraphClients : CreateFetch(c, GraphPages)
  \/ \E c \in GraphClients : CreateInsert(c)
  \/ \E id \in KnownIds, body \in GraphUpdateBodies : UpdateLink(id, body)
  \/ \E id \in KnownIds : DeleteLink(id)
  \/ \E c \in GraphClients : GetGraphData(c)

SpecGraph == Init /\ [][NextGraph]_vars

InitExtract ==
  /\ links = <<>>
  /\ nextId = 1
  /\ createdBy = <<>>
  /\ pending = [c \in Clients |-> Idle]
  /\ res = NoResponse
  /\ now = 0
  /\ outbound = 0
  /\ browser = BrowserInit
  /\ \E url \in ExtractUrls :
       \E outcome \in FetchOutcomes(url, ExtractPages) :
         ex = [pc |-> "call", url |-> url, outcome |-> outcome, result |-> Thrown]

NextExtract == ExtractCall

SpecExtract == InitExtract /\ [][NextExtract]_vars

\* One call of extractMetadata with its fetch in flight: the site answers,
\* fails, or stays silent. The event loop runs the function's own steps and
\* the timer whenever they are due (weak fairness); nothing makes the site
\* answer.
TimeoutUrls == {UrlShort, UrlBare, <<>>}
TimeoutPages == {PageTagged, PageUntitled}

InitTimeout ==
  /\ links = <<>>
  /\ nextId = 1
  /\ createdBy = <<>>
  /\ pending = [c \in Clients |-> Idle]
  /\ res = NoResponse
  /\ now = 0
  /\ outbound = 0
  /\ browser = BrowserInit
  /\ \E url \in TimeoutUrls :
       ex = [pc |-> "call", url |-> url, outcome |-> Failure("network"),
             result |-> Thrown, sentAt |-> 0]

NextTimeout ==
  \/ Tick
  \/ ExtractSend
  \/ SiteAnswers(TimeoutPages)
  \/ TimeoutFires

SpecTimeout ==
  /\ InitTimeout
  /\ [][NextTimeout]_vars
  /\ WF_vars(Tick)
  /\ WF_vars(ExtractSend)
  /\ WF_vars(TimeoutFires)

\* The store with a clock: one client creates, updates and deletes while
\* time passes.
ClockCreateBodies == {[url |-> u] @@ NoFields : u \in {UrlPage, UrlBare}}
ClockUpdateBodies == {NoUpdate, [NoUpdate EXCEPT !.title = <<"m">>]}

NextClock ==
  \/ Tick
  \/ \E c \in GraphClients, body \in ClockCreateBodies : CreateCheck(c, body)
  \/ \E c \in GraphClients : CreateFetch(c, CreatePages)
  \/ \E c \in GraphClients : CreateInsert(c)
  \/ \E id \in KnownIds, body \in ClockUpdateBodies : UpdateLink(id, body)
  \/ \E id \in KnownIds : DeleteLink(id)

SpecClock == Init /\ [][NextClock]_vars

\* The creates of one client: requests sent to the API as they are, and texts
\* pasted into the frontend.
NextPaste ==
  \/ \E c \in GraphClients, body \in ClockCreateBodies : CreateCheck(c, body)
  \/ \E c \in GraphClients, text \in ClipboardTexts : AddLinkFromClipboard(c, text)
  \/ \E c \in GraphClients : CreateFetch(c, CreatePages)
  \/ \E c \in GraphClients : CreateInsert(c)
  \/ \E id \in KnownIds : DeleteLink(id)

SpecPaste == Init /\ [][NextPaste]_vars

\* Updates of every updatable path: one client creates records and sends
\* bodies that name some of the paths and omit the others.
FrameUpdateBodies ==
  {NoUpdate,
   [NoUpdate EXCEPT !.title = <<"m">>, !.description = <<"d">>],
   [NoUpdate EXCEPT !.category = Article, !.notes = <<"n">>],
   [NoUpdate EXCEPT !.tags = Some(<<<<"x">>>>), !.relatedLinks = Some(<<GhostId>>)]}

NextFrame ==
  \/ \E c \in GraphClients, body \in ClockCreateBodies : CreateCheck(c, body)
  \/ \E c \in GraphClients : CreateFetch(c, CreatePages)
  \/ \E c \in GraphClients : CreateInsert(c)
  \/ \E id \in KnownIds, body \in FrameUpdateBodies : UpdateLink(id, body)

SpecFrame == Init /\ [][NextFrame]_vars

\* Writes with relatedLinks: one client creates, updates and deletes records
\* whose lists name a record created first, one created second, or none.
RelationLists == {<<>>, <<GhostId>>, <<1>>, <<2>>}

RelationCreateBodies ==
  {[NoFields EXCEPT !.relatedLinks = r] @@ [url |-> u] :
     u \in {UrlPage, UrlBare}, r \in {None} \cup {Some(q) : q \in RelationLists}}

RelationUpdateBodies ==
  {[NoUpdate EXCEPT !.title = <<"m">>]}
  \cup {[NoUpdate EXCEPT !.relatedLinks = Some(q)] : q \in RelationLists}

NextRelations ==
  \/ \E c \in GraphClients, body \in RelationCreateBodies : CreateCheck(c, body)
  \/ \E c \in GraphClients : CreateFetch(c, GraphPages)
  \/ \E c \in GraphClients : CreateInsert(c)
  \/ \E id \in KnownIds, body \in RelationUpdateBodies : UpdateLink(id, body)
  \/ \E id \in KnownIds : DeleteLink(id)

SpecRelations == Init /\ [][NextRelations]_vars

\* Requests as they arrive at the router: any method, for the paths "/",
\* "/graph" and the ids a client can know.
Methods == {"GET", "POST", "PUT", "DELETE"}
RouterPaths == {RootPath, GraphPath} \cup {IdPath(id) : id \in KnownIds}
RouterBodies ==
  {[url |-> u] @@ [NoUpdate EXCEPT !.title = t] :
     u \in {Undefined, UrlPage, UrlBare}, t \in {Undefined, <<"m">>}}

NextRouter ==
  \/ \E c \in GraphClients, method \in Methods, path \in RouterPaths, body \in RouterBodies :
       Request(c, method, path, body)
  \/ \E c \in GraphClients : CreateFetch(c, CreatePages)
  \/ \E c \in GraphClients : CreateInsert(c)

SpecRouter == Init /\ [][NextRouter]_vars

\* The home page of a user who is logged in: searches, page changes and
\* added links, with the responses arriving in any order.
SearchTexts == {"", "a"}
Pages == {FirstPage, 2}

InitHome ==
  /\ links = <<>>
  /\ nextId = 1
  /\ createdBy = <<>>
  /\ pending = [c \in Clients |-> Idle]
  /\ res = NoResponse
  /\ now = 0
  /\ ex = NoCall
  /\ outbound = 0
  /\ browser = [BrowserInit EXCEPT
                  !.token = 1, !.minted = 1, !.user = TheUser, !.loading = FALSE,
                  !.mounted = TRUE,
                  !.last = [ev |-> "recv", auth |-> NoToken, status |-> 200]]

NextHome ==
  \/ \E text \in SearchTexts : Search(text)
  \/ \E page \in Pages : PageChange(page)
  \/ LinkAdded
  \/ \E f \in browser.home.fetches, ok \in BOOLEAN : FetchSettles(f, ok)

SpecHome == InitHome /\ [][NextHome]_vars

\* The notifications of a page while time passes.
Messages == {"Link added successfully!", "Failed to load links", "Successfully logged in!"}

NextToast ==
  \/ Tick
  \/ \E message \in Messages : ShowNotification(message)
  \/ \E due \in browser.toast.timers : NotificationTimerFires(due)
  \/ ClearNotification

SpecToast == Init /\ [][NextToast]_vars

\* The frontend against a backend that answers any request with any status.
NextAuth ==
  \/ CallApi
  \/ Login
  \/ \E expired \in BOOLEAN : InitAuth(expired)
  \/ \E r \in browser.inFlight, status \in Statuses : Receive(r, status)
  \/ Logout
  \/ OpenLink

SpecAuth == Init /\ [][NextAuth]_vars

\* ------------------------------------------------------------------ extractMetadata: claims

\* What the URL API gives for the URLs of the model, written out by hand.
Parseable == {UrlPage, UrlPort, UrlDefaultPort, UrlFtp, UrlShort}

HostnameOf(url) ==
  IF url \in {UrlPort, UrlShort} THEN <<"c", ".", "i", "o">> ELSE <<"a", ".", "i", "o">>

OriginOf(url) ==
  IF url = UrlPort THEN <<"h", "t", "t", "p", ":", "/", "/", "c", ".", "i", "o", ":", "8">>
  ELSE IF url = UrlShort THEN <<"h", "t", "t", "p", ":", "/", "/", "c", ".", "i", "o">>
  ELSE IF url = UrlFtp THEN <<"f", "t", "p", ":", "/", "/", "a", ".", "i", "o">>
  ELSE <<"h", "t", "t", "p", "s", ":", "/", "/", "a", ".", "i", "o">>

FaviconIco == <<"/", "f", "a", "v", "i", "c", "o", "n", ".", "i", "c", "o">>

\* The degraded metadata of a URL.
Degraded(url) ==
  IF url \in Parseable
  THEN [title |-> HostnameOf(url), description |-> <<>>, image |-> <<>>,
        favicon |-> OriginOf(url) \o FaviconIco]
  ELSE [title |-> url, description |-> <<>>, image |-> <<>>, favicon |-> <<>>]

\* C2: when the input parses as a URL and the fetch or the HTML parse fails,
\* extractMetadata does not throw and returns title = the hostname,
\* description = "", image = "" and favicon = "{scheme}://{host}/favicon.ico".
C2_DegradedOnFailure ==
  (ex.pc = "done" /\ ex.url \in Parseable /\ ex.outcome.kind \in FailureKinds) =>
    /\ ~ex.result.threw
    /\ ex.result.value.title = HostnameOf(ex.url)
    /\ ex.result.value.description = <<>>
    /\ ex.result.value.image = <<>>
    /\ ex.result.value.favicon = OriginOf(ex.url) \o FaviconIco

\* C2 witness: a timed-out fetch of "http://c.io:8/" has returned "c.io" and
\* "http://c.io:8/favicon.ico".
C2_Witness ==
  /\ ex.pc = "done"
  /\ ex.url = UrlPort
  /\ ex.outcome.kind = "timeout"
  /\ ~ex.result.threw
  /\ ex.result.value.title = <<"c", ".", "i", "o">>
  /\ ex.result.value.favicon = UrlPort \o <<"f", "a", "v", "i", "c", "o", "n", ".", "i", "c", "o">>

\* C3: when the input does not parse as a URL, extractMetadata does not throw
\* and returns title = the raw input, with description, image and favicon "".
C3_RawOnUnparseable ==
  (ex.pc = "done" /\ ex.url \notin Parseable) =>
    /\ ~ex.result.threw
    /\ ex.result.value.title = ex.url
    /\ ex.result.value.description = <<>>
    /\ ex.result.value.image = <<>>
    /\ ex.result.value.favicon = <<>>

\* C3 witness: extractMetadata("a.io") has returned the title "a.io".
C3_Witness ==
  /\ ex.pc = "done"
  /\ ex.url = UrlBare
  /\ ~ex.result.threw
  /\ ex.result.value.title = <<"a", ".", "i", "o">>
  /\ ex.result.value.favicon = <<>>

\* An absolute URL: a reference with a scheme of its own.
IsAbsolute(ref) ==
  \E i \in 1..Len(ref) :
    /\ ref[i] = ":"
    /\ i > 1
    /\ \A j \in 1..(i - 1) : ref[j] \in Letters

\* The image value the page gives, before any conversion.
ExtractedImage(page) ==
  IF page.ogImage \notin {Undefined, <<>>} THEN page.ogImage
  ELSE IF page.twitterImage \notin {Undefined, <<>>} THEN page.twitterImage
  ELSE <<>>

\* C10: after a successful fetch the returned image is empty or an absolute
\* URL: a value that is not absolute is resolved against the origin of the
\* page with exactly one "/" between origin and path, and an absolute value
\* is returned unchanged.
C10_ImageAbsolute ==
  (ex.pc = "done" /\ ex.outcome.kind = "ok") =>
    LET raw == ExtractedImage(ex.outcome.page)
        image == ex.result.value.image
    IN  /\ ~ex.result.threw
        /\ image = <<>> \/ IsAbsolute(image)
        /\ IsAbsolute(raw) => image = raw
        /\ (raw # <<>> /\ ~IsAbsolute(raw)) =>
             image = OriginOf(ex.url) \o <<"/">> \o SkipSlashes(raw)

\* A candidate value with a character that is not white space.
NonBlank(v) == v \notin {Undefined, Null} /\ \E i \in 1..Len(v) : v[i] # " "

\* The candidates of the model's pages without their surrounding white
\* space, written out by hand.
Stripped(v) ==
  IF v = <<" ", "t", " ">> THEN <<"t">>
  ELSE IF v = <<"f", " ">> THEN <<"f">>
  ELSE IF v = <<" ">> THEN <<>>
  ELSE v

\* The first candidate that is not missing or blank, stripped; "" if none.
FirstNonBlank(cands) ==
  LET some == {k \in 1..Len(cands) : NonBlank(cands[k])}
  IN  IF some = {} THEN <<>> ELSE Stripped(cands[SetMin(some)])

\* C11: after a successful fetch, title is the first non-blank candidate of
\* og:title, twitter:title, <title>, and description the first non-blank
\* candidate of og:description, twitter:description, meta description, each
\* without its surrounding white space; "" only when no candidate is
\* non-blank.
C11_FirstNonEmpty ==
  (ex.pc = "done" /\ ex.outcome.kind = "ok") =>
    LET page == ex.outcome.page
    IN  /\ ~ex.result.threw
        /\ ex.result.value.title =
             FirstNonBlank(<<page.ogTitle, page.twitterTitle, page.title>>)
        /\ ex.result.value.description =
             FirstNonBlank(<<page.ogDescription, page.twitterDescription, page.description>>)

\* The fields of a page that each field of the metadata is resolved from.
TitleFields == {"ogTitle", "twitterTitle", "title"}
DescriptionFields == {"ogDescription", "twitterDescription", "description"}
ImageFields == {"ogImage", "twitterImage"}
FaviconFields == {"icon", "shortcutIcon"}

\* The page with the tags of the given fields only.
Only(page, fields) ==
  [f \in PageFields |->
     IF f \in fields THEN page[f] ELSE IF f = "title" THEN <<>> ELSE Undefined]

ExtractedFavicon(page) ==
  IF page.icon \notin {Undefined, <<>>} THEN page.icon
  ELSE IF page.shortcutIcon \notin {Undefined, <<>>} THEN page.shortcutIcon
  ELSE <<>>

\* The favicon is never empty for an input that parses as a URL.
FaviconNonEmpty ==
  (ex.pc = "done" /\ ex.url \in Parseable) =>
    ~ex.result.threw /\ ex.result.value.favicon # <<>>

\* C13: whenever the input parses as a URL the favicon returned is not
\* empty, after a successful fetch and after a failed one: it is the page's
\* rel="icon" link, else its rel="shortcut icon" link (resolved against the
\* origin when it is relative), else "{origin}/favicon.ico".
C13_FaviconNonEmpty ==
  /\ FaviconNonEmpty
  /\ (ex.pc = "done" /\ ex.url \in Parseable /\ ex.outcome.kind \in FailureKinds) =>
       ex.result.value.favicon = OriginOf(ex.url) \o FaviconIco
  /\ (ex.pc = "done" /\ ex.url \in Parseable /\ ex.outcome.kind = "ok") =>
       LET raw == ExtractedFavicon(ex.outcome.page)
       IN  ex.result.value.favicon =
             IF raw = <<>> THEN OriginOf(ex.url) \o FaviconIco
             ELSE IF IsAbsolute(raw) THEN raw
             ELSE OriginOf(ex.url) \o <<"/">> \o SkipSlashes(raw)

\* ------------------------------------------------------------------ createLink: claims

\* C1: a createLink for a non-empty URL that is not stored completes by
\* persisting one new record and answering 201 whatever the fetch did: the
\* await of extractMetadata always hands the handler a metadata value (the
\* degraded one after a failed fetch), and the insert of a URL that is not
\* stored appends exactly one record carrying that metadata and answers 201.
C1_CreateCompletes ==
  [][\A c \in Clients :
       /\ (pending[c].stage = "fetch" /\ pending'[c] # pending[c]) =>
            /\ pending'[c].stage = "insert"
            /\ pending'[c].body = pending[c].body
            /\ res'.op = "extractMetadata"
            /\ res'.error \in FailureKinds =>
                 pending'[c].metadata = Degraded(pending[c].body.url)
       /\ (/\ pending[c].stage = "insert"
           /\ pending'[c] # pending[c]
           /\ \A i \in 1..Len(links) : links[i].url # pending[c].body.url) =>
            /\ res'.op = "createLink"
            /\ res'.status = 201
            /\ Len(links') = Len(links) + 1
            /\ SubSeq(links', 1, Len(links)) = links
            /\ links'[Len(links')].url = pending[c].body.url
            /\ links'[Len(links')].title = pending[c].metadata.title
            /\ links'[Len(links')].description = pending[c].metadata.description
            /\ links'[Len(links')].image = pending[c].metadata.image
            /\ links'[Len(links')].favicon = pending[c].metadata.favicon
            /\ res'.data = links'[Len(links')]
    ]_vars

\* C1 witness: "https://a.io/b/p" has been created (201) with the degraded
\* metadata of a failed fetch.
C1_Witness ==
  /\ res.op = "createLink"
  /\ res.status = 201
  /\ res.req = UrlPage
  /\ Len(links) >= 1
  /\ links[Len(links)].url = UrlPage
  /\ links[Len(links)].title = <<"a", ".", "i", "o">>
  /\ links[Len(links)].image = <<>>

\* C5: the pair (url, creating client) is unique in the store, and a create
\* is rejected as a duplicate only when the same client already has a record
\* with that URL (it is accepted when only another client has one).
C5_UniquePerOwner ==
  /\ \A i, j \in 1..Len(links) :
       (i # j /\ links[i].url = links[j].url) =>
         createdBy[links[i]._id] # createdBy[links[j]._id]
  /\ (res.op = "createLink" /\ res.status = 400 /\ res.error = "Link already exists") =>
       \E i \in 1..Len(links) :
         links[i].url = res.req /\ createdBy[links[i]._id] = res.client

\* ------------------------------------------------------------------ reads: claims

\* C6: the link list and the graph returned to a client contain only records
\* that client created.
C6_OwnRecordsOnly ==
  /\ res.op = "getLinks" =>
       \A i \in 1..Len(res.data) : createdBy[res.data[i]._id] = res.client
  /\ res.op = "getGraphData" =>
       /\ \A i \in 1..Len(res.data.nodes) :
            \E id \in 1..(nextId - 1) :
              IdString(id) = res.data.nodes[i].id /\ createdBy[id] = res.client
       /\ \A k \in 1..Len(res.data.edges) :
            \E a, b \in 1..(nextId - 1) :
              /\ IdString(a) = res.data.edges[k].source
              /\ IdString(b) = res.data.edges[k].target
              /\ createdBy[a] = res.client
              /\ createdBy[b] = res.client

\* The ids of the stored records, as the graph names them.
StoredIdStrings == {<<"oid", links[i]._id>> : i \in 1..Len(links)}

\* The entries of a record's relatedLinks that name no stored record.
Dangling(link) ==
  {k \in 1..Len(link.relatedLinks) :
     \A j \in 1..Len(links) : links[j]._id # link.relatedLinks[k]}

\* C4: in the graph returned, the source and the target of every edge are
\* ids of nodes of that graph; a relatedLinks entry that names no stored
\* record gives no edge, and the request succeeds.
C4_EdgesJoinNodes ==
  res.op = "getGraphData" =>
    LET nodeIds == {res.data.nodes[i].id : i \in 1..Len(res.data.nodes)}
    IN  /\ res.status = 200
        /\ \A k \in 1..Len(res.data.edges) :
             /\ res.data.edges[k].source \in nodeIds
             /\ res.data.edges[k].target \in nodeIds
             /\ res.data.edges[k].target \in StoredIdStrings

\* C4 witness: a graph with an edge has been returned while a stored record
\* lists an id that names no record.
C4_Witness ==
  /\ res.op = "getGraphData"
  /\ Len(res.data.edges) >= 1
  /\ \E i \in 1..Len(links) : Dangling(links[i]) # {}

\* C7: for a store of N records the graph has exactly N nodes, one per
\* record, whatever the relatedLinks; for the empty store, no node, no edge.
C7_OneNodePerRecord ==
  res.op = "getGraphData" =>
    /\ Len(res.data.nodes) = Len(links)
    /\ \A i \in 1..Len(links) :
         /\ res.data.nodes[i].id = <<"oid", links[i]._id>>
         /\ res.data.nodes[i].url = links[i].url
    /\ links = <<>> => (res.data.nodes = <<>> /\ res.data.edges = <<>>)

\* C7 witness: the graph of two records, of which one lists nothing and the
\* other lists an id that names no record, has been returned with two nodes.
C7_Witness ==
  /\ res.op = "getGraphData"
  /\ Len(links) = 2
  /\ Len(res.data.nodes) = 2
  /\ \E i, j \in 1..2 :
       links[i].relatedLinks = <<>> /\ Dangling(links[j]) # {}

\* The number of entries of a sequence that satisfy a test.
Count(q, Test(_)) == Cardinality({k \in 1..Len(q) : Test(q[k])})

\* C8: the edges are one directed edge R -> T per entry T of R.relatedLinks
\* that names a stored record, and nothing else: no reciprocal edge, no
\* deduplication.
C8_EdgesAreEntries ==
  res.op = "getGraphData" =>
    /\ \A i, j \in 1..Len(links) :
         Count(res.data.edges,
               LAMBDA e : e.source = <<"oid", links[i]._id>> /\ e.target = <<"oid", links[j]._id>>)
           = Count(links[i].relatedLinks, LAMBDA t : t = links[j]._id)
    /\ \A k \in 1..Len(res.data.edges) :
         \E i, j \in 1..Len(links) :
           /\ res.data.edges[k].source = <<"oid", links[i]._id>>
           /\ res.data.edges[k].target = <<"oid", links[j]._id>>

\* C8 witness: record 1 lists record 2, record 2 does not list record 1, and
\* the graph returned has the one edge 1 -> 2.
C8_Witness ==
  /\ res.op = "getGraphData"
  /\ Len(links) = 2
  /\ links[1].relatedLinks = <<links[2]._id>>
  /\ \A k \in 1..Len(links[2].relatedLinks) : links[2].relatedLinks[k] # links[1]._id
  /\ res.data.edges = <<[source |-> <<"oid", links[1]._id>>, target |-> <<"oid", links[2]._id>>]>>

\* C9: a node's label is the record's title when the title is a non-empty
\* string, and the record's url when the title is the empty string.
C9_LabelFallback ==
  res.op = "getGraphData" =>
    \A i \in 1..Len(links) :
      /\ (links[i].title \notin {Null, <<>>}) => res.data.nodes[i].label = links[i].title
      /\ links[i].title = <<>> => res.data.nodes[i].label = links[i].url

\* C9 witness: the graph of a record with an empty title and a record with
\* a title has been returned.
C9_Witness ==
  /\ res.op = "getGraphData"
  /\ \E i, j \in 1..Len(links) :
       /\ links[i].title = <<>>
       /\ res.data.nodes[i].label = links[i].url
       /\ links[j].title \notin {Null, <<>>}
       /\ res.data.nodes[j].label = links[j].title

\* ------------------------------------------------------------------ the store: claims

\* C14: in every state of the store, after any creates and updates, the
\* title, description, favicon, image and notes of every record are strings:
\* never null, never absent.
C14_StringsNeverNull ==
  \A i \in 1..Len(links) :
    \A f \in {"title", "description", "favicon", "image", "notes"} :
      /\ f \in DOMAIN links[i]
      /\ links[i][f] \notin {Null, Undefined}

\* The stored record with the given _id.
Record(q, id) == q[CHOOSE i \in 1..Len(q) : q[i]._id = id]
Ids(q) == {q[i]._id : i \in 1..Len(q)}

\* C15: every accepted createLink makes exactly one call of axios.get, with
\* no further call after a failure, and no other step makes any (a rejected
\* create, an update, a delete, a read); a request that has fetched goes on
\* to its insert or its 500 and never fetches again, and no later step
\* changes the favicon or the image of a stored record, nor its title or
\* description other than an update to the values of its body.
C15_OneFetchPerCreate ==
  [][/\ outbound' = outbound
          + Cardinality({c \in Clients : pending[c] = Idle /\ pending'[c] # Idle})
     /\ \A c \in Clients :
          /\ (pending[c] = Idle /\ pending'[c] # Idle) => pending'[c].stage = "fetch"
          /\ (pending[c].stage = "fetch" /\ pending'[c] # pending[c]) =>
               pending'[c].stage \in {"insert", "idle"}
          /\ (pending[c].stage = "insert" /\ pending'[c] # pending[c]) =>
               pending'[c] = Idle
     /\ res'.op \in {"updateLink", "deleteLink", "getLinks", "getLink", "getGraphData"} =>
          outbound' = outbound
     /\ (res'.op = "createLink" /\ res'.status = 400) => outbound' = outbound
     /\ \A id \in Ids(links) \cap Ids(links') :
          /\ Record(links', id).favicon = Record(links, id).favicon
          /\ Record(links', id).image = Record(links, id).image
          /\ Record(links', id).url = Record(links, id).url
          /\ (Record(links', id).title # Record(links, id).title
                \/ Record(links', id).description # Record(links, id).description) =>
               (res'.op = "updateLink" /\ res'.status = 200 /\ res'.req = id)
    ]_vars

\* C15 witness: after one accepted create whose fetch failed, a rejected
\* create and an update of the record, axios.get has been called once and the
\* record still has the degraded favicon and image of its creation.
C15_Witness ==
  /\ outbound = 1
  /\ res.op = "updateLink"
  /\ res.status = 200
  /\ Len(links) = 1
  /\ links[1].url = UrlPage
  /\ links[1].title = <<"m">>
  /\ links[1].image = <<>>
  /\ links[1].favicon = OriginOf(UrlPage) \o FaviconIco

\* C16: every call of extractMetadata returns a metadata value in the end,
\* also when the site never answers: the timer settles the fetch, and a
\* timeout gives the degraded metadata of any other failed fetch.
C16_ExtractReturns ==
  /\ (ex.pc = "call") ~> (ex.pc = "done" /\ ~ex.result.threw)
  /\ []((ex.pc = "done" /\ ex.outcome.kind = "timeout") =>
          ex.result.value = Degraded(ex.url))

\* C16 witness: the site of "http://c.io" stayed silent, the timer
\* fired after the timeout and extractMetadata has returned the degraded
\* metadata.
C16_Witness ==
  /\ ex.pc = "done"
  /\ ex.url = UrlShort
  /\ ex.outcome.kind = "timeout"
  /\ now - ex.sentAt >= 2
  /\ ~ex.result.threw
  /\ ex.result.value.title = <<"c", ".", "i", "o">>
  /\ ex.result.value.favicon = UrlShort \o FaviconIco

\* C18: createdAt is set at creation and never changes; updatedAt is set to
\* the time of every successful mutation of the record; updatedAt never
\* decreases and is never before createdAt.
C18_Timestamps ==
  /\ [](\A i \in 1..Len(links) : links[i].updatedAt >= links[i].createdAt)
  /\ [][/\ \A id \in Ids(links') \ Ids(links) :
             /\ Record(links', id).createdAt = now'
             /\ Record(links', id).updatedAt = now'
        /\ \A id \in Ids(links) \cap Ids(links') :
             /\ Record(links', id).createdAt = Record(links, id).createdAt
             /\ Record(links', id).updatedAt >= Record(links, id).updatedAt
             /\ (now' = now /\ res'.op = "updateLink" /\ res'.status = 200 /\ res'.req = id) =>
                  Record(links', id).updatedAt = now'
             /\ Record(links', id) # Record(links, id) =>
                  Record(links', id).updatedAt = now'
       ]_vars

\* C18 witness: a record created at one time has been updated at a later
\* time.
C18_Witness ==
  /\ res.op = "updateLink"
  /\ res.status = 200
  /\ \E i \in 1..Len(links) :
       /\ links[i]._id = res.req
       /\ links[i].updatedAt = now
       /\ links[i].createdAt < now

\* The absolute http(s) URLs among the URLs of the model.
HttpUrls == {UrlPage, UrlPort, UrlDefaultPort, UrlShort}

\* C17: createLink calls extractMetadata only with an absolute http or https
\* URL: a create request with any other url never reaches the extractor.
C17_OnlyValidatedUrls ==
  /\ \A c \in Clients :
       pending[c].stage = "fetch" => pending[c].body.url \in HttpUrls
  /\ res.op = "extractMetadata" => res.req \in HttpUrls

\* C19: a record created by a request without a category is stored with the
\* category "Other".
C19_DefaultCategory ==
  [][\A c \in Clients :
       (/\ pending[c].stage = "insert"
        /\ pending[c].body.category = Undefined
        /\ Len(links') = Len(links) + 1) =>
         links'[Len(links')].category = <<"O", "t", "h", "e", "r">>
    ]_vars

\* ------------------------------------------------------------------ frontend: claims

\* C20: whenever a response with status 401 arrives, the stored token is
\* removed and the browser is sent to the home page; no request sent later
\* carries the token that was removed (or the one the 401 answered), and no
\* such token is stored again.
C20_Unauthorized ==
  /\ (browser.last.ev = "recv" /\ browser.last.status = 401) =>
       (browser.token = NoToken /\ browser.href = Home)
  /\ browser.last.ev = "send" => browser.last.auth \notin browser.dead
  /\ browser.token \notin browser.dead

\* C20 witness: a 401 has removed token 1, the user has logged in again and
\* a request carrying token 2 has been sent.
C20_Witness ==
  /\ 1 \in browser.dead
  /\ browser.token = 2
  /\ browser.href = Home
  /\ browser.last = [ev |-> "send", auth |-> 2, status |-> 0]

C22_LogoutAndFailedLogin ==
  [][/\ Logout =>
          /\ browser'.token = NoToken
          /\ browser'.user = NoUser
          /\ browser'.error = NoError
     /\ \A r \in browser.inFlight, status \in Statuses \ {200} :
          (Receive(r, status) /\ r.kind = "login") =>
            /\ browser'.token \in {browser.token, NoToken}
            /\ browser'.minted = browser.minted
            /\ browser'.user = browser.user
            /\ browser'.error = LoginFailed
            /\ browser'.loading = FALSE
    ]_vars

\* C22 witness: a user who is logged in has had a later login fail with a
\* 500: the token and the user of the first login are in place, the error is
\* set and loading is false.
C22_Witness ==
  /\ browser.last = [ev |-> "recv", auth |-> 1, status |-> 500]
  /\ browser.error = LoginFailed
  /\ browser.minted = 1
  /\ browser.token = 1
  /\ browser.user = TheUser
  /\ browser.loading = FALSE
  /\ browser.inFlight = {}

\* C28: whenever user is not null, an access token is stored.
C28_AuthenticatedHasToken ==
  browser.user # NoUser => browser.token # NoToken

\* ------------------------------------------------------------------ writes: claims

\* The paths updateLink may assign, and the paths it may not.
UpdatablePaths == {"title", "description", "category", "notes"}
UpdatableLists == {"tags", "relatedLinks"}
FixedPaths == {"_id", "url", "favicon", "image", "createdAt"}

\* C23: an updateLink step changes, of the record it names, only the paths
\* among title, description, tags, category, notes and relatedLinks that its
\* body has, each to the body's value; the record's _id, url, favicon, image
\* and createdAt, the paths the body omits, and every other record stay as
\* they were.
C23_UpdateFrame ==
  [][\A id \in KnownIds, body \in FrameUpdateBodies :
       UpdateLink(id, body) =>
         /\ Len(links') = Len(links)
         /\ \A i \in 1..Len(links) :
              IF links[i]._id # id
              THEN links'[i] = links[i]
              ELSE /\ \A f \in FixedPaths : links'[i][f] = links[i][f]
                   /\ \A f \in UpdatablePaths :
                        links'[i][f] = IF body[f] = Undefined THEN links[i][f] ELSE body[f]
                   /\ \A f \in UpdatableLists :
                        links'[i][f] = IF body[f] = None THEN links[i][f] ELSE body[f][1]
    ]_vars

\* C23 witness: of two records, the first has been updated twice, by bodies
\* naming different paths, and the update of category and notes has left its
\* new title in place; the second is as created.
C23_Witness ==
  /\ Len(links) = 2
  /\ res.op = "updateLink"
  /\ res.status = 200
  /\ res.req = links[1]._id
  /\ links[1].title = <<"m">>
  /\ links[1].category = Article
  /\ links[1].tags = <<>>
  /\ links[2].category = Uncategorized
  /\ links[2].updatedAt = links[2].createdAt

\* C24: a step changes the relatedLinks of a stored record only when it is a
\* successful updateLink of that very record, so no create, update or delete
\* of another record adds to or removes from it; and a create or an update
\* stores the relatedLinks of its body as they are, whether or not the
\* entries name a record.
C24_NoReciprocity ==
  [][/\ \A id \in Ids(links) \cap Ids(links') :
          Record(links', id).relatedLinks # Record(links, id).relatedLinks =>
            (res'.op = "updateLink" /\ res'.status = 200 /\ res'.req = id)
     /\ \A c \in GraphClients :
          (pending[c].stage = "insert" /\ Len(links') = Len(links) + 1) =>
            links'[Len(links')].relatedLinks =
              (IF pending[c].body.relatedLinks = None THEN <<>>
               ELSE pending[c].body.relatedLinks[1])
     /\ \A id \in Ids(links), body \in RelationUpdateBodies :
          (body.relatedLinks # None /\ res'.op = "updateLink" /\ res'.req = id
           /\ UpdateLink(id, body)) =>
            (res'.status = 200 /\ Record(links', id).relatedLinks = body.relatedLinks[1])
    ]_vars

\* C24 witness: record 1 lists record 2, which has just been deleted, and
\* still lists it.
C24_Witness ==
  /\ res.op = "deleteLink"
  /\ res.status = 200
  /\ res.req = 2
  /\ Len(links) = 1
  /\ links[1]._id = 1
  /\ links[1].relatedLinks = <<2>>

C26_GraphRoute ==
  [][\A c \in GraphClients, body \in RouterBodies :
       Request(c, "GET", GraphPath, body) =>
         (res'.op = "getGraphData" /\ res'.status = 200 /\ res'.op # "getLink")
    ]_vars

\* C26 witness: with two records stored, a GET for /graph has been answered
\* with a graph of two nodes.
C26_Witness ==
  /\ Route("GET", GraphPath) = "getGraphData"
  /\ res.op = "getGraphData"
  /\ res.status = 200
  /\ Len(links) = 2
  /\ Len(res.data.nodes) = 2

\* C27: no two records have the same url, and a createLink for a url that is
\* stored when the request is answered, and that did not store it itself, is
\* answered 400 'Link already exists'.
C27_DuplicateRejected ==
  /\ \A i, j \in 1..Len(links) : links[i].url = links[j].url => i = j
  /\ (res.op = "createLink" /\ res.status # 201 /\ FindByUrl(res.req) # {}) =>
       (res.status = 400 /\ res.error = "Link already exists")

\* ------------------------------------------------------------------ frontend pages: claims

\* C29: when no fetch of the home page is in flight and the fetch sent last
\* has succeeded, the results displayed are those of the query of the page
\* (the one sent last); and loading is false only when no fetch is in
\* flight.
C29_LatestResults ==
  /\ (browser.home.fetches = {} /\ browser.home.latest = "ok") =>
       browser.home.shown = [text |-> browser.home.text, page |-> browser.home.page]
  /\ browser.home.loading = FALSE => browser.home.fetches = {}

\* C30: a message set by showNotification is cleared by a timer no earlier
\* than one duration after it was shown.
C30_FullDuration ==
  (browser.toast.message = NoMessage /\ browser.toast.cause = "timer") =>
    now >= browser.toast.shownAt + Duration

====
